---- MODULE Spec2Model ----
(***************************************************************************)
(* smart-qa-portal: the question classification and response assembly      *)
(* pipeline (src/src/services.py) and the question validator               *)
(* (src/src/utils.py).                                                     *)
(*                                                                         *)
(* A Python str that the code inspects character by character (a question, *)
(* a category name) is a sequence of one-character strings.  The canned    *)
(* answers, links, steps and exception details are never inspected and are *)
(* kept as TLA+ strings.                                                   *)
(***************************************************************************)
EXTENDS Integers, Sequences, FiniteSets, TLC

VARIABLES
    model_loaded,   \* ModelService.model_loaded
    op,             \* the operation that ran last
    question,       \* the text argument of that operation
    user_id,        \* QuestionModel.user_id of that call
    outcome,        \* what the operation returned or raised
    first,          \* SpecRepeat: <<>>, or <<r>>, r the record of the first observed call
    content,        \* SpecPure: the content argument of format_response
    request,        \* SpecApi: the body of the last POST /process request
    responses,      \* SpecApi: the status codes of the responses sent before it
    calls           \* SpecConcurrent: the process_question calls, by caller

vars ==
    <<model_loaded, op, question, user_id, outcome, first,
      content, request, responses, calls>>

\* What the state machines of the service and of the pure functions leave alone.
NoRequest == [input_text |-> <<>>, options |-> "None"]
Idle ==
    /\ content = ""
    /\ request = NoRequest
    /\ responses = {}
    /\ calls = <<>>

(***************************************************************************)
(* Bounds of the input space.                                              *)
(***************************************************************************)
MaxPad == 1
MaxMarkupLen == 4

(***************************************************************************)
(* Text literals.                                                          *)
(***************************************************************************)
networking == <<"n", "e", "t", "w", "o", "r", "k", "i", "n", "g">>
security == <<"s", "e", "c", "u", "r", "i", "t", "y">>
storage == <<"s", "t", "o", "r", "a", "g", "e">>
virtualization == <<"v", "i", "r", "t", "u", "a", "l", "i", "z", "a", "t", "i", "o", "n">>

spam == <<"s", "p", "a", "m">>
illegal == <<"i", "l", "l", "e", "g", "a", "l">>
malware == <<"m", "a", "l", "w", "a", "r", "e">>

how == <<"h", "o", "w">>
why == <<"w", "h", "y">>
what == <<"w", "h", "a", "t">>
explain == <<"e", "x", "p", "l", "a", "i", "n">>
steps == <<"s", "t", "e", "p", "s">>
guide == <<"g", "u", "i", "d", "e">>

HowDoIFixMyNetwork ==
    <<"h", "o", "w", " ", "d", "o", " ", "I", " ", "f", "i", "x", " ",
      "m", "y", " ", "n", "e", "t", "w", "o", "r", "k">>

(***************************************************************************)
(* The inputs: a core text between a left and a right padding of up to     *)
(* MaxPad blanks or letters.  The cores are blank texts, the prohibited    *)
(* words in several letter cases, texts with and without a technical       *)
(* keyword, and the scenario question of the specification.                *)
(***************************************************************************)
Cores ==
    { <<>>, <<"\n">>, how, <<"f", "i", "x">>, <<"m", "y">>,
      spam, <<"S", "p", "A", "m">>,
      <<"I", "L", "L", "E", "G", "A", "L">>,
      <<"M", "a", "l", "w", "a", "r", "e">>,
      HowDoIFixMyNetwork }

PadChars == {" ", "a"}

Pad(c, n) == [i \in 1..n |-> c]

Questions ==
    { Pad(l, i) \o core \o Pad(r, j) :
        l \in PadChars, r \in PadChars, i \in 0..MaxPad, j \in 0..MaxPad,
        core \in Cores }

NoUser == "None"
UserIds == {NoUser, "alice"}

(***************************************************************************)
(* str.strip(), str.lower() and the `in` substring test.                   *)
(***************************************************************************)
Whitespace == {" ", "\t", "\n", "\r"}

RECURSIVE LStrip(_)
LStrip(s) ==
    IF s # <<>> /\ Head(s) \in Whitespace THEN LStrip(Tail(s)) ELSE s

RECURSIVE RStrip(_)
RStrip(s) ==
    IF s # <<>> /\ s[Len(s)] \in Whitespace
    THEN RStrip(SubSeq(s, 1, Len(s) - 1))
    ELSE s

Strip(s) == RStrip(LStrip(s))

UpperCase ==
    <<"A", "B", "C", "D", "E", "F", "G", "H", "I", "J", "K", "L", "M",
      "N", "O", "P", "Q", "R", "S", "T", "U", "V", "W", "X", "Y", "Z">>
LowerCase ==
    <<"a", "b", "c", "d", "e", "f", "g", "h", "i", "j", "k", "l", "m",
      "n", "o", "p", "q", "r", "s", "t", "u", "v", "w", "x", "y", "z">>

LowerChar(c) ==
    IF \E k \in 1..Len(UpperCase) : UpperCase[k] = c
    THEN LowerCase[CHOOSE k \in 1..Len(UpperCase) : UpperCase[k] = c]
    ELSE c

Lower(s) == [i \in 1..Len(s) |-> LowerChar(s[i])]

\* word in text
Contains(text, word) ==
    \E i \in 0..(Len(text) - Len(word)) :
        SubSeq(text, i + 1, i + Len(word)) = word

(***************************************************************************)
(* What a call returns or raises.  value is <<v>> for a returned v and     *)
(* <<>> when the call raised; exc is the class of the raised exception;     *)
(* warned tells whether the call logged a warning.                         *)
(***************************************************************************)
Return(v) ==
    [exc |-> "", status_code |-> 0, detail |-> "", value |-> <<v>>,
     warned |-> FALSE]

Raise(class, status, msg) ==
    [exc |-> class, status_code |-> status, detail |-> msg, value |-> <<>>,
     warned |-> FALSE]

HTTPException(status, msg) == Raise("HTTPException", status, msg)

NoOutcome == Return("None")

Raised(o) == o.exc # ""
Returned(o) == o.exc = ""

\* The failure kinds of the specification, as the HTTP boundary sees them.
EmptyInput(o) ==
    /\ o.exc = "HTTPException"
    /\ o.status_code = 400
    /\ o.detail = "Question cannot be empty"
ProhibitedContent(o) ==
    /\ o.exc = "HTTPException"
    /\ o.status_code = 400
    /\ o.detail = "Question contains prohibited content"
ServiceUnavailable(o) == o.exc = "HTTPException" /\ o.status_code = 503
InternalError(o) == o.exc = "HTTPException" /\ o.status_code = 500

(***************************************************************************)
(* ModelService                                                            *)
(***************************************************************************)
categories == <<networking, security, storage, virtualization>>

\* Variant: the index is taken from the length of the trimmed question.
categorize_question_trimmed(loaded, q) ==
    IF ~loaded
    THEN HTTPException(503, "Model not available")
    ELSE IF Strip(q) = <<>>
    THEN HTTPException(400, "Question cannot be empty")
    ELSE Return(categories[(Len(Strip(q)) % Len(categories)) + 1])

\* Variant: the blank test is made before the readiness test.
categorize_question_blank_first(loaded, q) ==
    IF Strip(q) = <<>>
    THEN HTTPException(400, "Question cannot be empty")
    ELSE IF ~loaded
    THEN HTTPException(503, "Model not available")
    ELSE Return(categories[(Len(q) % Len(categories)) + 1])

\* categorize_question(self, question), self.model_loaded = loaded
categorize_question(loaded, q) ==
    IF ~loaded
    THEN HTTPException(503, "Model not available")
    ELSE IF Strip(q) = <<>>
    THEN HTTPException(400, "Question cannot be empty")
    ELSE Return(categories[(Len(q) % Len(categories)) + 1])

(***************************************************************************)
(* QuestionProcessor: the knowledge-base lookups                           *)
(***************************************************************************)
\* Variant: the virtualization entry is missing from the answers table.
_generate_answer_missing_entry(category) ==
    CASE category = networking ->
           "For networking issues, check router settings and firewall rules."
      [] category = security ->
           "Security problems often require reviewing access controls and encryption protocols."
      [] category = storage ->
           "Storage issues may involve disk space management or RAID configuration."
      [] OTHER -> "No specific guidance available for this category"

_generate_answer(category) ==
    CASE category = networking ->
           "For networking issues, check router settings and firewall rules."
      [] category = security ->
           "Security problems often require reviewing access controls and encryption protocols."
      [] category = storage ->
           "Storage issues may involve disk space management or RAID configuration."
      [] category = virtualization ->
           "Virtualization problems typically relate to resource allocation or hypervisor settings."
      [] OTHER -> "No specific guidance available for this category"

\* Variant: an unknown category falls back to the networking links.
_generate_documentation_links_fallback(category) ==
    CASE category = security ->
           << "https://docs.example.com/security-best-practices",
              "https://support.example.com/secure-configuration" >>
      [] category = storage ->
           << "https://docs.example.com/storage-optimization",
              "https://support.example.com/storage-diagnosis" >>
      [] category = virtualization ->
           << "https://docs.example.com/virtualization-tips",
              "https://support.example.com/vm-configuration" >>
      [] OTHER ->
           << "https://docs.example.com/networking-guide",
              "https://support.example.com/network-troubleshooting" >>

_generate_documentation_links(category) ==
    CASE category = networking ->
           << "https://docs.example.com/networking-guide",
              "https://support.example.com/network-troubleshooting" >>
      [] category = security ->
           << "https://docs.example.com/security-best-practices",
              "https://support.example.com/secure-configuration" >>
      [] category = storage ->
           << "https://docs.example.com/storage-optimization",
              "https://support.example.com/storage-diagnosis" >>
      [] category = virtualization ->
           << "https://docs.example.com/virtualization-tips",
              "https://support.example.com/vm-configuration" >>
      [] OTHER -> << >>

_generate_troubleshooting_steps(category) ==
    CASE category = networking ->
           << "Check physical connections and router LEDs",
              "Restart network devices and test connectivity",
              "Verify firewall rules and port configurations" >>
      [] category = security ->
           << "Review access control lists and permissions",
              "Check for unauthorized device connections",
              "Verify encryption protocols and certificate validity" >>
      [] category = storage ->
           << "Monitor disk space and storage quotas",
              "Check RAID array status and rebuild if needed",
              "Verify storage path configurations and permissions" >>
      [] category = virtualization ->
           << "Check resource allocation for virtual machines",
              "Verify hypervisor version and patches",
              "Monitor VM performance counters for bottlenecks" >>
      [] OTHER -> << >>

ResponseModel(category) ==
    [ category |-> category,
      answer |-> _generate_answer(category),
      documentation_links |-> _generate_documentation_links(category),
      troubleshooting_steps |-> _generate_troubleshooting_steps(category) ]

(***************************************************************************)
(* QuestionProcessor.process_question                                      *)
(***************************************************************************)
\* The body of the try block: what it returns, or the exception it raises.
process_question_try(loaded, q, u) ==
    IF Strip(q) = <<>>
    THEN HTTPException(400, "Question cannot be empty")
    ELSE LET c == categorize_question(loaded, q)
         IN  IF Raised(c) THEN c ELSE Return(ResponseModel(c.value[1]))

\* The except clauses: `except ValidationError` re-raises as 400; `except
\* Exception` catches every other exception, the HTTPExceptions raised in the
\* try block included, and re-raises as 500.
process_question(loaded, q, u) ==
    LET r == process_question_try(loaded, q, u)
    IN  IF r.exc = "ValidationError"
        THEN HTTPException(400, "validation error")
        ELSE IF Raised(r)
        THEN HTTPException(500, "Internal server error")
        ELSE r

(***************************************************************************)
(* The service: one ModelService and the calls made on it.                 *)
(***************************************************************************)
Init ==
    /\ model_loaded = FALSE
    /\ op = "__init__"
    /\ question = <<>>
    /\ user_id = NoUser
    /\ outcome = NoOutcome
    /\ first = <<>>
    /\ Idle

LoadModel ==
    /\ model_loaded' = TRUE
    /\ op' = "load_model"
    /\ question' = <<>>
    /\ user_id' = NoUser
    /\ outcome' = NoOutcome
    /\ UNCHANGED first
    /\ UNCHANGED <<content, request, responses, calls>>

\* Variant: a failed call marks the model as not loaded.
CategorizeQuestion_unloads_on_error(q) ==
    /\ op' = "categorize_question"
    /\ question' = q
    /\ user_id' = NoUser
    /\ outcome' = categorize_question(model_loaded, q)
    /\ model_loaded' = (model_loaded /\ Returned(outcome'))
    /\ UNCHANGED first
    /\ UNCHANGED <<content, request, responses, calls>>

CategorizeQuestion(q) ==
    /\ op' = "categorize_question"
    /\ question' = q
    /\ user_id' = NoUser
    /\ outcome' = categorize_question(model_loaded, q)
    /\ UNCHANGED <<model_loaded, first>>
    /\ UNCHANGED <<content, request, responses, calls>>

ProcessQuestion(q, u) ==
    /\ op' = "process_question"
    /\ question' = q
    /\ user_id' = u
    /\ outcome' = process_question(model_loaded, q, u)
    /\ UNCHANGED <<model_loaded, first>>
    /\ UNCHANGED <<content, request, responses, calls>>

Next ==
    \/ LoadModel
    \/ \E q \in Questions : CategorizeQuestion(q)
    \/ \E q \in Questions, u \in UserIds : ProcessQuestion(q, u)

Spec == Init /\ [][Next]_vars

(***************************************************************************)
(* QuestionValidator (utils.py)                                            *)
(***************************************************************************)
prohibited_words == {spam, illegal, malware}
technical_keywords == {how, why, what, explain, steps, guide}

\* Variant: the prohibited words are searched in the text as given.
HasProhibitedWord_case_sensitive(value) ==
    \E word \in prohibited_words : Contains(value, word)

\* any(word in value.lower() for word in self.prohibited_words)
HasProhibitedWord(value) ==
    \E word \in prohibited_words : Contains(Lower(value), word)

\* any(word in value.lower() for word in self.technical_keywords)
HasTechnicalKeyword(value) ==
    \E word \in technical_keywords : Contains(Lower(value), word)

\* Variant: a text without a technical keyword is rejected.
validate_question_try_keyword_required(value) ==
    IF Strip(value) = <<>>
    THEN Raise("ValueError", 0, "Question cannot be empty")
    ELSE IF HasProhibitedWord(value)
    THEN Raise("ValueError", 0, "Question contains prohibited content")
    ELSE IF ~HasTechnicalKeyword(value)
    THEN Raise("ValueError", 0, "Question may not be technical enough")
    ELSE Return(value)

\* Variant: the emptiness test is made on the text as given, not trimmed.
validate_question_try_untrimmed(value) ==
    IF value = <<>>
    THEN Raise("ValueError", 0, "Question cannot be empty")
    ELSE IF HasProhibitedWord(value)
    THEN Raise("ValueError", 0, "Question contains prohibited content")
    ELSE [Return(value) EXCEPT !.warned = ~HasTechnicalKeyword(value)]

\* The body of the try block of validate_question.
validate_question_try(value) ==
    IF Strip(value) = <<>>
    THEN Raise("ValueError", 0, "Question cannot be empty")
    ELSE IF HasProhibitedWord(value)
    THEN Raise("ValueError", 0, "Question contains prohibited content")
    ELSE [Return(value) EXCEPT !.warned = ~HasTechnicalKeyword(value)]

\* except Exception as e: raise HTTPException(status_code=400, detail=str(e))
QuestionValidator_validate_question(value) ==
    LET r == validate_question_try(value)
    IN  IF Raised(r) THEN HTTPException(400, r.detail) ELSE r

(***************************************************************************)
(* validate_question (services.py): the length gate                        *)
(***************************************************************************)
Warned(o) == [o EXCEPT !.warned = TRUE]

\* Variant: the lower bound is tested on the length of the text as given.
validate_question_untrimmed(q) ==
    IF q = <<>> \/ Len(q) < 3
    THEN Warned(Return(FALSE))
    ELSE IF Len(q) > 1000
    THEN Warned(Return(FALSE))
    ELSE Return(TRUE)

\* `not question or len(question.strip()) < 3`, then `len(question) > 1000`
validate_question(q) ==
    IF q = <<>> \/ Len(Strip(q)) < 3
    THEN Warned(Return(FALSE))
    ELSE IF Len(q) > 1000
    THEN Warned(Return(FALSE))
    ELSE Return(TRUE)

(***************************************************************************)
(* sanitize_input (utils.py).  Its argument is any Python value: a str     *)
(* (type "str", val the text), None, or a value of another type.           *)
(***************************************************************************)
Str(text) == [type |-> "str", val |-> text]
None == [type |-> "NoneType", val |-> <<>>]
NonStrings == { [type |-> "int", val |-> <<>>], [type |-> "list", val |-> <<>>] }

Digits == {"0", "1", "2", "3", "4", "5", "6", "7", "8", "9"}

\* \w
IsWord(c) ==
    \/ \E k \in 1..Len(UpperCase) : c = UpperCase[k] \/ c = LowerCase[k]
    \/ c \in Digits
    \/ c = "_"

\* \- \. \, \! \? \; \: \( \) \{ \} \[ \]
Punctuation == {"-", ".", ",", "!", "?", ";", ":", "(", ")", "{", "}", "[", "]"}

\* the character survives re.sub(r'[^\w\s\-\.\,\!\?\;\:\(\)\{\}\[\]]', '', ...)
Whitelisted(c) == IsWord(c) \/ c \in Whitespace \/ c \in Punctuation

\* c is the end of a match of <[^>]+> that starts at m: the first ">" after
\* m, with at least one character in between
TagEnd(text, m, c) ==
    /\ c \in (m + 2)..Len(text)
    /\ text[c] = ">"
    /\ \A k \in (m + 1)..(c - 1) : text[k] # ">"

TagStarts(text) ==
    { m \in 1..Len(text) :
        text[m] = "<" /\ \E c \in (m + 2)..Len(text) : TagEnd(text, m, c) }

\* re.sub(r'<[^>]+>', '', text): the leftmost match is removed, and the
\* search goes on after it
RECURSIVE RemoveTags(_)
RemoveTags(text) ==
    IF TagStarts(text) = {}
    THEN text
    ELSE LET m == CHOOSE x \in TagStarts(text) :
                      \A y \in TagStarts(text) : x <= y
             c == CHOOSE x \in (m + 2)..Len(text) : TagEnd(text, m, x)
         IN  SubSeq(text, 1, m - 1)
               \o RemoveTags(SubSeq(text, c + 1, Len(text)))

RemoveDisallowed(text) == SelectSeq(text, Whitelisted)

\* Variant: the text is trimmed before the substitutions, not after.
sanitize_input_try_strip_first(text) ==
    IF text.type = "NoneType"
    THEN Return(<<>>)
    ELSE IF text.type # "str"
    THEN Raise("ValueError", 0, "Input must be a string")
    ELSE Return(RemoveDisallowed(RemoveTags(Strip(text.val))))

\* The body of the try block of sanitize_input.
sanitize_input_try(text) ==
    IF text.type = "NoneType"
    THEN Return(<<>>)
    ELSE IF text.type # "str"
    THEN Raise("ValueError", 0, "Input must be a string")
    ELSE Return(Strip(RemoveDisallowed(RemoveTags(text.val))))

\* Variant: no except clause, the ValueError reaches the caller.
sanitize_input_propagates(text) == sanitize_input_try(text)

\* except Exception: the error is logged and "" is returned
sanitize_input(text) ==
    LET r == sanitize_input_try(text)
    IN  IF Raised(r) THEN Warned(Return(<<>>)) ELSE r

(***************************************************************************)
(* DocumentationHelper and format_response (utils.py)                      *)
(***************************************************************************)
python == <<"p", "y", "t", "h", "o", "n">>
machine_learning ==
    <<"m", "a", "c", "h", "i", "n", "e", "-", "l", "e", "a", "r", "n", "i", "n", "g">>
api == <<"a", "p", "i">>
unknown == <<"u", "n", "k", "n", "o", "w", "n">>
DocumentationFor ==
    <<"D", "o", "c", "u", "m", "e", "n", "t", "a", "t", "i", "o", "n", " ",
      "f", "o", "r", " ">>

\* self.documentation_links
documentation_links ==
    << [key |-> python, url |-> "https://docs.python.org/3/"],
       [key |-> machine_learning, url |-> "https://machinelearning.com/"],
       [key |-> api, url |-> "https://api-reference.example.com/"] >>

\* The body of the try block of get_documentation_links.
get_documentation_links_try(category) ==
    IF ~\E k \in 1..Len(documentation_links) :
            documentation_links[k].key = category
    THEN Raise("ValueError", 0, "Category not found in documentation links")
    ELSE LET k == CHOOSE x \in 1..Len(documentation_links) :
                      documentation_links[x].key = category
         IN  Return(<< [title |-> DocumentationFor \o category,
                        url |-> documentation_links[k].url] >>)

\* Variant: no except clause, the ValueError reaches the caller.
get_documentation_links_propagates(category) ==
    get_documentation_links_try(category)

\* except Exception: the error is logged and [] is returned
get_documentation_links(category) ==
    LET r == get_documentation_links_try(category)
    IN  IF Raised(r) THEN Warned(Return(<<>>)) ELSE r

\* The body of the try block of format_response.
format_response_try(contentArg, category) ==
    LET v == QuestionValidator_validate_question(category)
        d == get_documentation_links(category)
    IN  IF Raised(v) THEN v
        ELSE IF Raised(d) THEN d
        ELSE Return([content |-> contentArg, category |-> category,
                     documentation |-> d.value[1]])

\* except Exception: the error is logged and the 'unknown' response returned
format_response(contentArg, category) ==
    LET r == format_response_try(contentArg, category)
    IN  IF Raised(r)
        THEN Warned(Return([content |-> contentArg, category |-> unknown,
                            documentation |-> <<>>]))
        ELSE r

(***************************************************************************)
(* The pure functions, each applied to an input text drawn at the start.   *)
(* The lookups take the text as their category argument.                   *)
(***************************************************************************)
KnownCategories == {categories[k] : k \in 1..Len(categories)}

\* Texts around the upper limit of the length gate.
LongQuestions ==
    { Pad(l, i) \o Pad("a", 999) \o Pad(r, j) :
        l \in PadChars, r \in PadChars, i \in 0..MaxPad, j \in 0..MaxPad }

\* Texts with markup and with characters outside the whitelist.
MarkupChars == {"<", ">", "b", " ", "&", "."}
MarkupTexts ==
    UNION { [1..n -> MarkupChars] : n \in 0..MaxMarkupLen }

DocumentationCategories ==
    { python, machine_learning, api, <<"P", "y", "t", "h", "o", "n">> }

Contents == {"", "Restart the router."}

PureInputs ==
    Questions \cup KnownCategories \cup LongQuestions \cup MarkupTexts
        \cup DocumentationCategories

InitPure ==
    /\ model_loaded = FALSE
    /\ op = "__init__"
    /\ question \in PureInputs
    /\ user_id = NoUser
    /\ outcome = NoOutcome
    /\ first = <<>>
    /\ content \in Contents
    /\ request = NoRequest
    /\ responses = {}
    /\ calls = <<>>

\* Each function is applied to the drawn input itself.
Apply(name, result) ==
    /\ op = "__init__"
    /\ op' = name
    /\ outcome' = result
    /\ UNCHANGED <<model_loaded, question, user_id, first>>
    /\ UNCHANGED <<content, request, responses, calls>>

ValidateQuestion ==
    Apply("QuestionValidator.validate_question",
          QuestionValidator_validate_question(question))

GenerateAnswer ==
    Apply("_generate_answer", Return(_generate_answer(question)))

GenerateDocumentationLinks ==
    Apply("_generate_documentation_links",
          Return(_generate_documentation_links(question)))

GenerateTroubleshootingSteps ==
    Apply("_generate_troubleshooting_steps",
          Return(_generate_troubleshooting_steps(question)))

LengthGate ==
    Apply("validate_question", validate_question(question))

SanitizeInput ==
    Apply("sanitize_input", sanitize_input(Str(question)))

SanitizeNone ==
    Apply("sanitize_input(None)", sanitize_input(None))

SanitizeNonString ==
    \E v \in NonStrings : Apply("sanitize_input(non-str)", sanitize_input(v))

FormatResponse ==
    Apply("format_response", format_response(content, question))

NextPure ==
    \/ ValidateQuestion
    \/ GenerateAnswer
    \/ GenerateDocumentationLinks
    \/ GenerateTroubleshootingSteps
    \/ LengthGate
    \/ SanitizeInput
    \/ SanitizeNone
    \/ SanitizeNonString
    \/ FormatResponse

SpecPure == InitPure /\ [][NextPure]_vars

(***************************************************************************)
(* Repeated calls: process_question is called again and again with one     *)
(* input (question, user_id), with calls on other inputs and load_model in *)
(* between.  first keeps the outcome of the first call with that input,    *)
(* whether the model was loaded when it was made, whether the call has     *)
(* been repeated since, and whether another input was processed since.     *)
(***************************************************************************)
InitRepeat ==
    /\ model_loaded = FALSE
    /\ op = "__init__"
    /\ question \in Questions
    /\ user_id \in UserIds
    /\ outcome = NoOutcome
    /\ first = <<>>
    /\ Idle

RepeatLoadModel ==
    /\ model_loaded' = TRUE
    /\ op' = "load_model"
    /\ outcome' = NoOutcome
    /\ UNCHANGED <<question, user_id, first>>
    /\ UNCHANGED <<content, request, responses, calls>>

\* Variant: the call leaves the model unloaded.
RepeatProcessQuestion_unloads ==
    /\ op' = "process_question"
    /\ outcome' = process_question(model_loaded, question, user_id)
    /\ first' = IF first = <<>>
                THEN << [outcome |-> outcome', loaded |-> model_loaded,
                         repeated |-> FALSE, between |-> FALSE] >>
                ELSE << [first[1] EXCEPT !.repeated = TRUE] >>
    /\ model_loaded' = FALSE
    /\ UNCHANGED <<question, user_id>>
    /\ UNCHANGED <<content, request, responses, calls>>

\* process_question(QuestionModel(question, user_id)), the observed input
RepeatProcessQuestion ==
    /\ op' = "process_question"
    /\ outcome' = process_question(model_loaded, question, user_id)
    /\ first' = IF first = <<>>
                THEN << [outcome |-> outcome', loaded |-> model_loaded,
                         repeated |-> FALSE, between |-> FALSE] >>
                ELSE << [first[1] EXCEPT !.repeated = TRUE] >>
    /\ UNCHANGED <<model_loaded, question, user_id>>
    /\ UNCHANGED <<content, request, responses, calls>>

\* process_question on another input (an unpadded text, or the same text for
\* another user), in between
OtherProcessQuestion(q, u) ==
    /\ <<q, u>> # <<question, user_id>>
    /\ op' = "process_question (other)"
    /\ outcome' = process_question(model_loaded, q, u)
    /\ first' = IF first = <<>>
                THEN first
                ELSE << [first[1] EXCEPT !.between = TRUE] >>
    /\ UNCHANGED <<model_loaded, question, user_id>>
    /\ UNCHANGED <<content, request, responses, calls>>

NextRepeat ==
    \/ RepeatLoadModel
    \/ RepeatProcessQuestion
    \/ \E q \in Cores, u \in UserIds : OtherProcessQuestion(q, u)

SpecRepeat == InitRepeat /\ [][NextRepeat]_vars

(***************************************************************************)
(* main.py: POST /process.  A request is its JSON body: input_text is      *)
(* <<text>>, or <<>> when the field is missing; options is echoed in the   *)
(* metadata.  responses is what the logging middleware has seen so far:    *)
(* the status codes of the responses.                                      *)
(***************************************************************************)
min_length == 1
max_length == 10000
OutputPrefix == 50

NoOptions == "None"
Options == {NoOptions, "{'key': 'value'}"}

\* readings of datetime.now().isoformat()
Times == {"2024-01-01T00:00:00", "2024-01-01T00:00:01"}

UpperChar(c) ==
    IF \E k \in 1..Len(LowerCase) : LowerCase[k] = c
    THEN UpperCase[CHOOSE k \in 1..Len(LowerCase) : LowerCase[k] = c]
    ELSE c

Upper(s) == [i \in 1..Len(s) |-> UpperChar(s[i])]

DigitChars == <<"0", "1", "2", "3", "4", "5", "6", "7", "8", "9">>

\* f"{n}" for a natural number n
RECURSIVE Decimal(_)
Decimal(n) ==
    IF n < 10
    THEN << DigitChars[n + 1] >>
    ELSE Decimal(n \div 10) \o << DigitChars[(n % 10) + 1] >>

\* processed[:k]
Prefix(s, k) == SubSeq(s, 1, IF Len(s) < k THEN Len(s) ELSE k)

\* f"Processed {input_length} characters: {processed[:50]}..."
Output(input_length, processed) ==
    <<"P", "r", "o", "c", "e", "s", "s", "e", "d", " ">>
        \o Decimal(input_length)
        \o <<" ", "c", "h", "a", "r", "a", "c", "t", "e", "r", "s", ":", " ">>
        \o Prefix(processed, OutputPrefix)
        \o <<".", ".", ".">>

ResponseData(output, input_length, now, options) ==
    [output |-> output,
     status |-> "success",
     metadata |-> [input_length |-> input_length,
                   output_length |-> Len(output),
                   processed_at |-> now,
                   options |-> options]]

\* RequestData: the validation of the body before the handler runs; "" for a
\* body that passes.
RequestData(body) ==
    IF body.input_text = <<>>
    THEN "input_text: field required"
    ELSE IF Len(body.input_text[1]) < min_length
    THEN "input_text: min_length"
    ELSE IF Len(body.input_text[1]) > max_length
    THEN "input_text: max_length"
    ELSE ""

\* The try block of process_data.
process_data_try(body, now) ==
    LET input_text == body.input_text[1]
    IN  IF input_text = <<>> \/ Strip(input_text) = <<>>
        THEN Warned(HTTPException(400, "Input text cannot be empty"))
        ELSE LET input_length == Len(input_text)
                 processed == Upper(input_text)
                 output == Output(input_length, processed)
             IN  Return(ResponseData(output, input_length, now, body.options))

process_data(body, now) ==
    LET o == process_data_try(body, now)
    IN  IF o.exc = "HTTPException"
        THEN o
        ELSE IF Raised(o)
        THEN HTTPException(500, "An unexpected error occurred during processing")
        ELSE o

\* What the framework answers to POST /process.
post_process(body, now) ==
    IF RequestData(body) # ""
    THEN Raise("RequestValidationError", 422, RequestData(body))
    ELSE process_data(body, now)

\* status_code of the response: 200 for a returned ResponseData
StatusCode(o) == IF Returned(o) THEN 200 ELSE o.status_code

ApiTexts ==
    {Pad(" ", n) : n \in 0..(MaxPad + 2)}
        \cup { <<"\t", "\n">>, <<"a">>, <<" ", "a", " ">>, how,
               HowDoIFixMyNetwork,
               Pad("a", 100) \o <<>>, Pad("a", max_length) \o <<>>,
               Pad("a", max_length + 1) \o <<>> }

Bodies ==
    { [input_text |-> t, options |-> o] :
        t \in {<<>>} \cup {<<x>> : x \in ApiTexts}, o \in Options }

InitApi ==
    /\ Init
    /\ request = NoRequest
    /\ responses = {}

\* A response that is 500 once an earlier request was rejected.
PostProcess_remembers_rejection(body, now) ==
    /\ op' = "POST /process"
    /\ request' = body
    /\ outcome' = IF responses \cap {400, 422} # {}
                  THEN HTTPException(500, "An unexpected error occurred during processing")
                  ELSE post_process(body, now)
    /\ responses' = responses \cup {StatusCode(outcome')}
    /\ UNCHANGED <<model_loaded, question, user_id, first, content, calls>>

\* POST /process, with the middleware's log of the response
PostProcess(body, now) ==
    /\ op' = "POST /process"
    /\ request' = body
    /\ outcome' = post_process(body, now)
    /\ responses' = responses \cup {StatusCode(outcome')}
    /\ UNCHANGED <<model_loaded, question, user_id, first, content, calls>>

NextApi == \E body \in Bodies, now \in Times : PostProcess(body, now)

SpecApi == InitApi /\ [][NextApi]_vars

(***************************************************************************)
(* Concurrent process_question calls on one QuestionProcessor, interleaved *)
(* with load_model.  A call is a thread running process_question: its      *)
(* question_data is its own, the only thing it shares is model_service.    *)
(* Its steps are the blank check, the categorize_question call (the one    *)
(* read of model_loaded) and the assembly of the ResponseModel.            *)
(* overlapped and loaded_at_begin record how the call was interleaved.     *)
(***************************************************************************)
MaxCallers == 2

Callers == 1..MaxCallers

ConcurrentQuestions == { <<" ">>, <<"m", "y">>, how }

IdleCall ==
    [pc |-> "idle", question |-> <<>>, category |-> "", outcome |-> NoOutcome,
     overlapped |-> FALSE, loaded_at_begin |-> FALSE]

InFlight(call) == call.pc \notin {"idle", "done"}

\* The except clauses of process_question, applied to what the try block raised.
process_question_except(r) ==
    IF r.exc = "ValidationError"
    THEN HTTPException(400, "validation error")
    ELSE HTTPException(500, "Internal server error")

Finished(call, o) == [call EXCEPT !.pc = "done", !.outcome = o]

InitConcurrent ==
    /\ model_loaded = FALSE
    /\ op = "__init__"
    /\ question = <<>>
    /\ user_id = NoUser
    /\ outcome = NoOutcome
    /\ first = <<>>
    /\ content = ""
    /\ request = NoRequest
    /\ responses = {}
    /\ calls = [i \in Callers |-> IdleCall]

ConcurrentLoadModel ==
    /\ model_loaded' = TRUE
    /\ op' = "load_model"
    /\ UNCHANGED <<question, user_id, outcome, first, content, request,
                   responses, calls>>

\* Caller i enters process_question(QuestionModel(question=q)).
BeginProcessQuestion(i, q) ==
    /\ ~InFlight(calls[i])
    /\ op' = "process_question"
    /\ question' = q
    /\ calls' =
         [j \in Callers |->
            IF j = i
            THEN [pc |-> "try", question |-> q, category |-> "",
                  outcome |-> NoOutcome,
                  overlapped |-> \E k \in Callers \ {i} : InFlight(calls[k]),
                  loaded_at_begin |-> model_loaded]
            ELSE IF InFlight(calls[j])
            THEN [calls[j] EXCEPT !.overlapped = TRUE]
            ELSE calls[j]]
    /\ UNCHANGED <<model_loaded, user_id, outcome, first, content, request,
                   responses>>

\* if not question_data.question.strip(): raise HTTPException(400, ...)
CheckBlank(i) ==
    /\ calls[i].pc = "try"
    /\ op' = "process_question"
    /\ calls' =
         [calls EXCEPT ![i] =
            IF Strip(calls[i].question) = <<>>
            THEN Finished(calls[i],
                          process_question_except(
                              HTTPException(400, "Question cannot be empty")))
            ELSE [calls[i] EXCEPT !.pc = "categorize"]]
    /\ UNCHANGED <<model_loaded, question, user_id, outcome, first, content,
                   request, responses>>

\* Variant: the processor categorizes the question submitted last, kept on
\* the shared processor, instead of the call's own.
Categorize_last_submitted(i) ==
    /\ calls[i].pc = "categorize"
    /\ op' = "process_question"
    /\ LET c == categorize_question(model_loaded, question)
       IN  calls' =
             [calls EXCEPT ![i] =
                IF Raised(c)
                THEN Finished(calls[i], process_question_except(c))
                ELSE [calls[i] EXCEPT !.pc = "assemble",
                                      !.category = c.value[1]]]
    /\ UNCHANGED <<model_loaded, question, user_id, outcome, first, content,
                   request, responses>>

\* category = self.model_service.categorize_question(question_data.question)
Categorize(i) ==
    /\ calls[i].pc = "categorize"
    /\ op' = "process_question"
    /\ LET c == categorize_question(model_loaded, calls[i].question)
       IN  calls' =
             [calls EXCEPT ![i] =
                IF Raised(c)
                THEN Finished(calls[i], process_question_except(c))
                ELSE [calls[i] EXCEPT !.pc = "assemble",
                                      !.category = c.value[1]]]
    /\ UNCHANGED <<model_loaded, question, user_id, outcome, first, content,
                   request, responses>>

\* The three lookups and return ResponseModel(...)
Assemble(i) ==
    /\ calls[i].pc = "assemble"
    /\ op' = "process_question"
    /\ calls' = [calls EXCEPT ![i] =
                   Finished(calls[i], Return(ResponseModel(calls[i].category)))]
    /\ UNCHANGED <<model_loaded, question, user_id, outcome, first, content,
                   request, responses>>

NextConcurrent ==
    \/ ConcurrentLoadModel
    \/ \E i \in Callers, q \in ConcurrentQuestions : BeginProcessQuestion(i, q)
    \/ \E i \in Callers : CheckBlank(i)
    \/ \E i \in Callers : Categorize(i)
    \/ \E i \in Callers : Assemble(i)

SpecConcurrent == InitConcurrent /\ [][NextConcurrent]_vars

(***************************************************************************)
(* The properties.  Their vocabulary is stated on the text itself, apart   *)
(* from the operators of the code above.                                   *)
(***************************************************************************)
\* every character is whitespace (the empty text included)
Blank(t) == \A i \in 1..Len(t) : t[i] \in Whitespace

\* word occurs in t as a substring, letter case ignored
Mentions(t, word) ==
    \E i \in 1..(Len(t) - Len(word) + 1) :
        \A k \in 1..Len(word) : LowerChar(t[i + k - 1]) = word[k]

MentionsProhibited(t) ==
    Mentions(t, spam) \/ Mentions(t, illegal) \/ Mentions(t, malware)

MentionsKeyword(t) ==
    \/ Mentions(t, how) \/ Mentions(t, why) \/ Mentions(t, what)
    \/ Mentions(t, explain) \/ Mentions(t, steps) \/ Mentions(t, guide)

CategoryAt(n) ==
    CASE n % 4 = 0 -> networking
      [] n % 4 = 1 -> security
      [] n % 4 = 2 -> storage
      [] n % 4 = 3 -> virtualization

\* C1: with the model loaded, categorize_question of a non-blank text without
\* a prohibited word and of length 3..1000 returns the category at index
\* len(text) mod 4 of [networking, security, storage, virtualization], the
\* length being that of the text as passed in; the category is a function of
\* the text alone.
C1_CategoryByLength ==
    ( /\ op = "categorize_question"
      /\ model_loaded
      /\ ~Blank(question)
      /\ ~MentionsProhibited(question)
      /\ Len(question) \in 3..1000 )
    => outcome = Return(CategoryAt(Len(question)))

\* " how": four characters as passed in, three once trimmed.
C1_Witness ==
    /\ op = "categorize_question"
    /\ model_loaded
    /\ question = <<" ">> \o how
    /\ outcome = Return(networking)

\* C2: process_question of a blank question fails with EmptyInput (HTTP 400,
\* "Question cannot be empty"), surfaced unchanged.
C2_BlankFailsEmptyInput ==
    (op = "process_question" /\ Blank(question)) => EmptyInput(outcome)

\* C3: process_question of a non-blank question while the model is not loaded
\* fails with ServiceUnavailable (HTTP 503) and returns no answer bundle.
C3_UnloadedFailsServiceUnavailable ==
    (op = "process_question" /\ ~Blank(question) /\ ~model_loaded)
    => (ServiceUnavailable(outcome) /\ outcome.value = <<>>)

\* C4: process_question of a question that contains a prohibited word fails
\* with ProhibitedContent (HTTP 400) and returns no answer bundle, whether or
\* not the model is loaded.
C4_ProhibitedFailsProhibitedContent ==
    (op = "process_question" /\ MentionsProhibited(question))
    => (ProhibitedContent(outcome) /\ outcome.value = <<>>)

\* C5 as stated: with the model loaded, process_question of "how do I fix my
\* network" returns category networking with the networking answer, links and
\* steps.
C5_ScenarioIsNetworking ==
    ( /\ op = "process_question"
      /\ model_loaded
      /\ question = HowDoIFixMyNetwork )
    => /\ Returned(outcome)
       /\ outcome.value[1].category = networking
       /\ outcome.value[1].answer =
            "For networking issues, check router settings and firewall rules."
       /\ outcome.value[1].documentation_links =
            << "https://docs.example.com/networking-guide",
               "https://support.example.com/network-troubleshooting" >>
       /\ Len(outcome.value[1].troubleshooting_steps) = 3
       /\ outcome.value[1].troubleshooting_steps[1] =
            "Check physical connections and router LEDs"

\* C5 amended: with the model loaded, process_question of "how do I fix my
\* network" (23 characters, 23 mod 4 = 3) returns category virtualization, the
\* virtualization answer, exactly two links (virtualization-tips first,
\* vm-configuration second) and exactly three steps whose first is "Check
\* resource allocation for virtual machines".
C5_ScenarioIsVirtualization ==
    ( /\ op = "process_question"
      /\ model_loaded
      /\ question = HowDoIFixMyNetwork )
    => /\ Returned(outcome)
       /\ Len(question) = 23
       /\ outcome.value[1].category = virtualization
       /\ outcome.value[1].answer =
            "Virtualization problems typically relate to resource allocation or hypervisor settings."
       /\ outcome.value[1].documentation_links =
            << "https://docs.example.com/virtualization-tips",
               "https://support.example.com/vm-configuration" >>
       /\ Len(outcome.value[1].troubleshooting_steps) = 3
       /\ outcome.value[1].troubleshooting_steps[1] =
            "Check resource allocation for virtual machines"

C5_Witness ==
    /\ op = "process_question"
    /\ model_loaded
    /\ question = HowDoIFixMyNetwork
    /\ user_id = "alice"
    /\ Returned(outcome)

\* C6: the three lookups always return; for each of the four known categories
\* they return a non-empty answer, exactly 2 links and exactly 3 steps, in the
\* tabled order (the docs link and the first-listed step come first); for any
\* other category they return the generic answer, no links and no steps.
C6_LookupsTotal ==
    LET known == question \in {networking, security, storage, virtualization}
        v == outcome.value[1]
    IN  /\ op = "_generate_answer" =>
              /\ Returned(outcome)
              /\ IF known
                 THEN /\ v # ""
                      /\ v # "No specific guidance available for this category"
                 ELSE v = "No specific guidance available for this category"
              /\ question = networking =>
                   v = "For networking issues, check router settings and firewall rules."
        /\ op = "_generate_documentation_links" =>
              /\ Returned(outcome)
              /\ IF known THEN Len(v) = 2 ELSE v = <<>>
              /\ question = networking =>
                   v = << "https://docs.example.com/networking-guide",
                          "https://support.example.com/network-troubleshooting" >>
              /\ question = security =>
                   v[1] = "https://docs.example.com/security-best-practices"
              /\ question = storage =>
                   v[1] = "https://docs.example.com/storage-optimization"
              /\ question = virtualization =>
                   v[1] = "https://docs.example.com/virtualization-tips"
        /\ op = "_generate_troubleshooting_steps" =>
              /\ Returned(outcome)
              /\ IF known THEN Len(v) = 3 ELSE v = <<>>
              /\ question = networking =>
                   v[1] = "Check physical connections and router LEDs"
              /\ question = security =>
                   v[1] = "Review access control lists and permissions"
              /\ question = storage =>
                   v[1] = "Monitor disk space and storage quotas"
              /\ question = virtualization =>
                   v[1] = "Check resource allocation for virtual machines"

\* An unknown category (a capitalised one) gets the empty link list.
C6_Witness ==
    /\ op = "_generate_documentation_links"
    /\ question = <<"M", "a", "l", "w", "a", "r", "e">>
    /\ outcome = Return(<<>>)

\* C7: once process_question has been called with an input while the model
\* was loaded, every later call with the same question and user_id, whatever
\* was processed in between, has the same outcome: the same category, answer,
\* links and steps, or the same failure.
C7_RepeatedCallSameOutcome ==
    (op = "process_question" /\ first # <<>> /\ first[1].loaded)
    => outcome = first[1].outcome

C7_Witness ==
    /\ op = "process_question"
    /\ first # <<>>
    /\ first[1].loaded
    /\ first[1].repeated
    /\ first[1].between
    /\ Returned(outcome)
    /\ outcome.value[1].category = security

TrimmedLength(t) ==
    IF Blank(t)
    THEN 0
    ELSE LET inked == {i \in 1..Len(t) : t[i] \notin Whitespace}
             lo == CHOOSE i \in inked : \A j \in inked : i <= j
             hi == CHOOSE i \in inked : \A j \in inked : j <= i
         IN  hi - lo + 1

\* C11 as stated: the length gate returns False for every question shorter
\* than 3 or longer than 1000 characters and True for every question of 3 to
\* 1000 characters, the length being that of the text as given.
C11_GateOnGivenLength ==
    op = "validate_question"
    => outcome.value = << Len(question) \in 3..1000 >>

\* C11 amended: the length gate returns False for every question that has
\* fewer than 3 characters once its leading and trailing whitespace is
\* trimmed, or more than 1000 characters as given, and True for every other
\* question.
C11_GateOnTrimmedLength ==
    op = "validate_question"
    => /\ Returned(outcome)
       /\ outcome.value =
            << TrimmedLength(question) >= 3 /\ Len(question) <= 1000 >>

\* " my ": four characters as given, two once trimmed.
C11_Witness ==
    /\ op = "validate_question"
    /\ question = <<" ", "m", "y", " ">>
    /\ outcome.value = <<FALSE>>

AllowedCharacters ==
    {UpperCase[k] : k \in 1..Len(UpperCase)}
        \cup {LowerCase[k] : k \in 1..Len(LowerCase)}
        \cup {"0", "1", "2", "3", "4", "5", "6", "7", "8", "9", "_"}
        \cup {" ", "\t", "\n", "\r"}
        \cup {"-", ".", ",", "!", "?", ";", ":", "(", ")", "{", "}", "[", "]"}

\* C13: the result of sanitize_input on a string holds only whitelisted
\* characters (so no "<", no ">" and no <...> tag), neither starts nor ends
\* with whitespace, and is returned unchanged when sanitized again.
C13_SanitizedText ==
    op = "sanitize_input"
    => LET r == outcome.value[1]
       IN  /\ \A i \in 1..Len(r) : r[i] \in AllowedCharacters
           /\ \A i \in 1..Len(r) : r[i] # "<" /\ r[i] # ">"
           /\ r # <<>> => (r[1] \notin Whitespace /\ r[Len(r)] \notin Whitespace)
           /\ sanitize_input(Str(r)) = Return(r)

\* "<b>b": the tag goes, the letter after it stays.
C13_Witness ==
    /\ op = "sanitize_input"
    /\ question = <<"<", "b", ">", "b">>
    /\ outcome = Return(<<"b">>)

C14_ReadinessBeforeBlank ==
    op = "categorize_question"
    => /\ ~model_loaded => ServiceUnavailable(outcome)
       /\ (model_loaded /\ Blank(question)) => EmptyInput(outcome)
       /\ (model_loaded /\ ~Blank(question))
            => (Returned(outcome) /\ outcome.value[1] \in KnownCategories)
       /\ Returned(outcome) => (model_loaded /\ ~Blank(question))

\* A blank question before load_model: 503, not 400.
C14_Witness ==
    /\ op = "categorize_question"
    /\ ~model_loaded
    /\ question = <<" ">>
    /\ ServiceUnavailable(outcome)

\* C18: model_loaded is False on construction and True after load_model, no
\* step sets it back to False, and while it is True no categorize_question
\* call fails with 503.
C18_ReadinessMonotonic ==
    /\ [](op = "__init__" => ~model_loaded)
    /\ [](op = "load_model" => model_loaded)
    /\ [][model_loaded => model_loaded']_vars
    /\ []((model_loaded /\ op = "categorize_question")
            => ~ServiceUnavailable(outcome))

\* A failed call (a blank question) after load_model, the model still loaded.
C18_Witness ==
    /\ model_loaded
    /\ op = "categorize_question"
    /\ EmptyInput(outcome)

\* the status POST /process answers with, read off the body alone
ExpectedStatus(body) ==
    IF body.input_text = <<>> THEN 422
    ELSE IF Len(body.input_text[1]) = 0 \/ Len(body.input_text[1]) > 10000 THEN 422
    ELSE IF Blank(body.input_text[1]) THEN 400
    ELSE 200

\* C15 as stated: POST /process answers 400 with a detail message to an
\* input_text that is empty ("") or whitespace-only, and 422 to a body
\* without input_text.
C15_BlankRejected400 ==
    op = "POST /process"
    => /\ request.input_text = <<>> => StatusCode(outcome) = 422
       /\ (request.input_text # <<>> /\ Blank(request.input_text[1]))
            => (StatusCode(outcome) = 400 /\ outcome.detail # "")

\* C16: whatever requests came before, rejected ones included, POST /process
\* answers a valid non-blank input_text with 200 and status "success", and
\* the response to any request is the one its own body determines: the
\* status, the detail of a rejection, and the output, lengths and options of
\* a success.
C16_RecoversAfterErrors ==
    op = "POST /process"
    => /\ StatusCode(outcome) = ExpectedStatus(request)
       /\ ExpectedStatus(request) = 200
            => /\ Returned(outcome)
               /\ outcome.value[1].status = "success"
               /\ outcome.value[1].metadata.input_length
                    = Len(request.input_text[1])
               /\ outcome.value[1].metadata.options = request.options
               /\ outcome =
                    post_process(request, outcome.value[1].metadata.processed_at)
       /\ ExpectedStatus(request) # 200
            => \A now \in Times : outcome = post_process(request, now)

\* "how" answered with 200 after a 400 and a 422.
C16_Witness ==
    /\ op = "POST /process"
    /\ request.input_text = <<how>>
    /\ {400, 422} \subseteq responses
    /\ StatusCode(outcome) = 200
    /\ outcome.value[1].status = "success"
    /\ outcome.value[1].output =
         <<"P", "r", "o", "c", "e", "s", "s", "e", "d", " ", "3", " ",
           "c", "h", "a", "r", "a", "c", "t", "e", "r", "s", ":", " ",
           "H", "O", "W", ".", ".", ".">>

\* C17: under every interleaving of process_question calls with each other
\* and with load_model, only load_model changes model_loaded, and each
\* finished call either failed or returned exactly the bundle of the
\* category its own question's length selects; a call on a blank question
\* fails, and a call returns only once the model is loaded.  (The category
\* and knowledge-base tables are literals built inside each call: no step
\* has anything of them to write.)
C17_CallsIndependent ==
    /\ [][model_loaded' # model_loaded => op' = "load_model"]_vars
    /\ [](\A i \in DOMAIN calls :
            calls[i].pc = "done"
            => /\ \/ Raised(calls[i].outcome)
                  \/ calls[i].outcome =
                       Return(ResponseModel(CategoryAt(Len(calls[i].question))))
               /\ Blank(calls[i].question) => Raised(calls[i].outcome)
               /\ Returned(calls[i].outcome) => model_loaded)

\* Two overlapping calls, both returned, each with the category of its own
\* question; the first began before load_model.
C17_Witness ==
    /\ Len(calls) >= 2
    /\ calls[1].pc = "done" /\ calls[2].pc = "done"
    /\ calls[1].overlapped /\ calls[2].overlapped
    /\ ~calls[1].loaded_at_begin
    /\ calls[1].question = <<"m", "y">> /\ calls[2].question = how
    /\ calls[1].outcome = Return(ResponseModel(storage))
    /\ calls[2].outcome = Return(ResponseModel(virtualization))

====
